---- MODULE Spec2Model ----
(***************************************************************************)
(* The bz2 streaming decoder element (GstBz2dec): its Decoder State        *)
(* (ready, stream, offset, buffer_size), the session lifecycle             *)
(* (decompress_init / decompress_end / finalize) and the chain function    *)
(* that drives BZ2_bzDecompress over fixed-capacity output buffers.        *)
(*                                                                         *)
(* The compressed stream is abstracted to a sequence of tokens: a token    *)
(* n in 1..  expands to n output bytes of value n, token 0 is a compressed *)
(* byte that completes no output, TokEnd is the end-of-stream trailer and  *)
(* TokBad is a corrupted byte.  The decoder keeps, as bzlib does, the      *)
(* output of a decoded block pending inside the session until the caller   *)
(* offers room for it.                                                     *)
(***************************************************************************)
EXTENDS Integers, Sequences, FiniteSets, TLC

VARIABLES
  ready,        \* b->ready
  stream,       \* b->stream (bz_stream and the DState behind stream.state)
  offset,       \* b->offset
  buffer_size,  \* b->buffer_size
  sessions,     \* number of DState objects bzlib currently has allocated for b
  finalized,    \* the object has been finalized
  upstream,     \* the compressed bytes the caller has still to deliver
  fed,          \* Input Chunk tokens given to chain during the logged session
  pushed,       \* Output Chunks given to gst_pad_push during the logged session
  over,         \* the logged session has been torn down (reinit or finalize)
  call,         \* record of the last handler invocation
  dccp          \* a gst_dccp_send_buffer call on a DCCP socket and what the socket got

vars == <<ready, stream, offset, buffer_size, sessions, finalized, upstream, fed, pushed,
          over, call, dccp>>

-----------------------------------------------------------------------------
(* Bounds of the model *)

MaxRun == 2          \* data tokens are 1..MaxRun
MaxBodyLen == 2      \* the caller's stream holds at most MaxBodyLen bytes before its tail
MaxBufferSize == 2   \* set_property offers 1..MaxBufferSize
MaxFailIter == 2     \* the downstream may refuse at loop iteration 1..MaxFailIter
TotalOutWrap == 64   \* stands for 2^32, the range of bz_stream.total_out_lo32
MaxData == 3         \* a buffer sent over DCCP holds at most MaxData bytes
MaxPacket == 2       \* packet_size is -1..MaxPacket
MaxWrites == 6       \* write() is called at most MaxWrites times in one send
SizeWrap == 16       \* stands for 2^64, the range of size_t
MaxCcid == 2         \* CCID values, and the bytes left on the stack, are 0..MaxCcid

DEFAULT_BUFFER_SIZE == 1024

\* sizeof (ccids) in gst_dccp_set_ccid
CcidSlots == 4

-----------------------------------------------------------------------------
(* Tokens of the abstract compressed stream *)

TokEnd == MaxRun + 1
TokBad == MaxRun + 2
IsEnd(t) == t = TokEnd
IsBad(t) == t = TokBad
IsRun(t) == t > 0 /\ ~IsEnd(t) /\ ~IsBad(t)

Min(a, b) == IF a < b THEN a ELSE b

Take(s, k) == SubSeq(s, 1, k)
Drop(s, k) == SubSeq(s, k + 1, Len(s))
Copies(n, v) == [i \in 1..n |-> v]

-----------------------------------------------------------------------------
(* bzlib: BZ2_bzDecompressInit / BZ2_bzDecompressEnd / BZ2_bzDecompress *)

\* memset (&b->stream, 0, sizeof (b->stream)), also the state of a new object
ZeroStream ==
  [state |-> "NULL", pending |-> <<>>, avail_in |-> 0, avail_out |-> 0,
   total_out_lo32 |-> 0, total_out_hi32 |-> 0]

\* The stream after a successful BZ2_bzDecompressInit: a DState is allocated
StartedStream(s) ==
  [s EXCEPT !.state = "RUN", !.pending = <<>>,
            !.total_out_lo32 = 0, !.total_out_hi32 = 0]

\* One run of the decoder's loop: drain the pending output into the room left,
\* then read input until a block completes, the input runs out, the stream
\* ends or the data is bad.  st = [r, s, in, out, room].
RECURSIVE BzRun(_)
BzRun(st) ==
  LET s == st.s IN
  IF s.state = "NULL" THEN [st EXCEPT !.r = "BZ_PARAM_ERROR"]
  ELSE IF s.state = "IDLE" THEN [st EXCEPT !.r = "BZ_SEQUENCE_ERROR"]
  ELSE IF s.pending # <<>> THEN
    LET k == Min(Len(s.pending), st.room) IN
    IF k < Len(s.pending)
      THEN [st EXCEPT !.r = "BZ_OK", !.s.pending = Drop(s.pending, k),
                      !.out = st.out \o Take(s.pending, k), !.room = st.room - k]
      ELSE BzRun([st EXCEPT !.s.pending = <<>>,
                            !.out = st.out \o s.pending, !.room = st.room - k])
  ELSE IF st.in = <<>> THEN [st EXCEPT !.r = "BZ_OK"]
  ELSE LET t == Head(st.in) IN
    IF IsBad(t) THEN [st EXCEPT !.r = "BZ_DATA_ERROR", !.in = Tail(st.in)]
    ELSE IF IsEnd(t) THEN [st EXCEPT !.r = "BZ_STREAM_END", !.s.state = "IDLE",
                                     !.in = Tail(st.in)]
    ELSE IF t = 0 THEN BzRun([st EXCEPT !.in = Tail(st.in)])
    ELSE BzRun([st EXCEPT !.s.pending = Copies(t, t), !.in = Tail(st.in)])

\* r = BZ2_bzDecompress (&b->stream) with next_in/avail_in bound to `in` and
\* next_out/avail_out bound to a buffer of `size` bytes.
\* Result: [r, s (the stream afterwards), in (unread input), out (bytes written)].
BZ2_bzDecompress(s, in, size) ==
  LET st == BzRun([r |-> "BZ_OK", s |-> s, in |-> in, out |-> <<>>, room |-> size])
      n == Len(st.out)
      lo == s.total_out_lo32 + n
  IN [r |-> st.r,
      s |-> [st.s EXCEPT !.avail_in = Len(st.in), !.avail_out = st.room,
                         !.total_out_lo32 = lo % TotalOutWrap,
                         !.total_out_hi32 = @ + (lo \div TotalOutWrap)],
      in |-> st.in,
      out |-> st.out]

-----------------------------------------------------------------------------
(* The element: b = [ready, stream, offset, buffer_size, sessions, errs] *)

gst_bz2dec_decompress_end_NoRelease(b) ==
  IF b.ready
    THEN [b EXCEPT !.stream = ZeroStream, !.ready = FALSE]
    ELSE b

gst_bz2dec_decompress_end(b) ==
  IF b.ready
    THEN [b EXCEPT !.sessions = @ - 1,          \* BZ2_bzDecompressEnd
                   !.stream = ZeroStream,
                   !.ready = FALSE]
    ELSE b

gst_bz2dec_decompress_init_KeepOffset(b, startOk) ==
  LET e == gst_bz2dec_decompress_end(b)
  IN IF startOk
       THEN [e EXCEPT !.stream = StartedStream(e.stream),
                      !.sessions = @ + 1,
                      !.ready = TRUE]
       ELSE [e EXCEPT !.ready = FALSE,
                      !.errs = Append(@, "Failed to start decompression.")]

\* startOk: BZ2_bzDecompressInit returns BZ_OK
gst_bz2dec_decompress_init(b, startOk) ==
  LET e == gst_bz2dec_decompress_end(b)
      z == [e EXCEPT !.offset = 0]
  IN IF startOk
       THEN [z EXCEPT !.stream = StartedStream(z.stream),
                      !.sessions = @ + 1,
                      !.ready = TRUE]
       ELSE [z EXCEPT !.ready = FALSE,
                      !.errs = Append(@, "Failed to start decompression.")]

\* What the downstream does in one chain call: d = [kind, at], kind "none", or
\* "alloc" / "push" for gst_pad_alloc_buffer / gst_pad_push failing with
\* FlowFailure at loop iteration `at`.
FlowFailure == "GST_FLOW_NOT_LINKED"
NoFail == [kind |-> "none", at |-> 0]

\* (r != BZ_OK) && (r != BZ_STREAM_END)
IsDecodeError_OnlyEndIsFine(r) == r # "BZ_STREAM_END"
IsDecodeError(r) == r # "BZ_OK" /\ r # "BZ_STREAM_END"

\* b->stream.avail_out >= GST_BUFFER_SIZE (out): the step produced nothing
IsEmptyOutput_AnyRoomLeft(strm, size) == strm.avail_out > 0
IsEmptyOutput(strm, size) == strm.avail_out >= size

\* The capacity asked of gst_pad_alloc_buffer
AllocSize_OneMore(b) == b.buffer_size + 1
AllocSize_One(b) == 1
AllocSize(b) == b.buffer_size

\* GST_BUFFER_OFFSET (out) = b->stream.total_out_lo32 - GST_BUFFER_SIZE (out),
\* in unsigned 32-bit arithmetic
BufferOffset_NoSubtract(strm, n) == strm.total_out_lo32
BufferOffset(strm, n) == (strm.total_out_lo32 - n) % TotalOutWrap

\* gst_pad_alloc_buffer failed: gst_bz2dec_decompress_init (b); return fr
OnAllocFailure_NoReinit(c, startOk) ==
  [c EXCEPT !.reqs = Append(@, c.b.offset),
            !.fail = "alloc",
            !.ret = FlowFailure,
            !.exit = "return",
            !.ev = @ \o <<"alloc_fail">>]

OnAllocFailure(c, startOk) ==
  [c EXCEPT !.b = gst_bz2dec_decompress_init(c.b, startOk),
            !.reqs = Append(@, c.b.offset),
            !.reinits = @ + 1,
            !.fail = "alloc",
            !.ret = FlowFailure,
            !.exit = "return",
            !.ev = @ \o <<"alloc_fail", "init">>]

\* The step failed: GST_ELEMENT_ERROR, gst_bz2dec_decompress_init (b),
\* gst_buffer_unref (out), return GST_FLOW_ERROR
OnDecodeError_HandsChunk(c1, startOk) ==
  [c1 EXCEPT !.b = gst_bz2dec_decompress_init(
                      [c1.b EXCEPT !.errs = Append(@, "Failed to decompress data")],
                      startOk),
             !.reinits = @ + 1,
             !.handed = Append(@, [offset |-> c1.b.offset, size |-> 0, data |-> <<>>,
                                   cap |-> c1.b.buffer_size, req |-> c1.b.offset,
                                   ok |-> TRUE]),
             !.outs = Append(@, [pushed |-> TRUE, unrefs |-> 0]),
             !.ret = "GST_FLOW_ERROR",
             !.exit = "return",
             !.ev = @ \o <<"error", "init", "push">>]

OnDecodeError(c1, startOk) ==
  [c1 EXCEPT !.b = gst_bz2dec_decompress_init(
                      [c1.b EXCEPT !.errs = Append(@, "Failed to decompress data")],
                      startOk),
             !.reinits = @ + 1,
             !.outs = Append(@, [pushed |-> FALSE, unrefs |-> 1]),
             !.ret = "GST_FLOW_ERROR",
             !.exit = "return",
             !.ev = @ \o <<"error", "init", "unref_out">>]

\* The step produced nothing: gst_buffer_unref (out); break
OnEmptyOutput(c1) ==
  [c1 EXCEPT !.outs = Append(@, [pushed |-> FALSE, unrefs |-> 1]),
             !.exit = "break",
             !.ev = @ \o <<"unref_out">>]

\* gst_pad_push failed: gst_buffer_unref (out); return fr
OnPushFailure_AdvancesOffset(c1, out) ==
  [c1 EXCEPT !.handed = Append(@, out),
             !.outs = Append(@, [pushed |-> TRUE, unrefs |-> 1]),
             !.b.offset = @ + out.size,
             !.fail = "push",
             !.ret = FlowFailure,
             !.exit = "return",
             !.ev = @ \o <<"push_fail", "unref_out">>]

OnPushFailure(c1, out) ==
  [c1 EXCEPT !.handed = Append(@, out),
             !.outs = Append(@, [pushed |-> TRUE, unrefs |-> 1]),
             !.fail = "push",
             !.ret = FlowFailure,
             !.exit = "return",
             !.ev = @ \o <<"push_fail", "unref_out">>]

\* gst_pad_push succeeded: b->offset += n
OnPushed_CountsCapacity(c1, out) ==
  [c1 EXCEPT !.handed = Append(@, out),
             !.outs = Append(@, [pushed |-> TRUE, unrefs |-> 0]),
             !.b.offset = @ + out.cap,
             !.ev = @ \o <<"push">>]

OnPushed(c1, out) ==
  [c1 EXCEPT !.handed = Append(@, out),
             !.outs = Append(@, [pushed |-> TRUE, unrefs |-> 0]),
             !.b.offset = @ + out.size,
             !.ev = @ \o <<"push">>]

\* The while loop of gst_bz2dec_chain from iteration i on.
\* c = [b, in (unread input), r, rs, handed, outs, reqs, ret, exit, fail, reinits, ev]
RECURSIVE ChunkLoop(_, _, _, _)
ChunkLoop(c, i, d, startOk) ==
  IF c.r = "BZ_STREAM_END" THEN c
  ELSE IF d.kind = "alloc" /\ d.at = i THEN OnAllocFailure(c, startOk)
  ELSE
    LET size == AllocSize(c.b)
        z == BZ2_bzDecompress(c.b.stream, c.in, size)
        c1 == [c EXCEPT !.b.stream = z.s, !.in = z.in, !.r = z.r,
                        !.rs = Append(@, z.r),
                        !.reqs = Append(@, c.b.offset),
                        !.ev = @ \o <<"alloc", "step">>]
    IN IF IsDecodeError(z.r) THEN OnDecodeError(c1, startOk)
       ELSE IF IsEmptyOutput(z.s, size) THEN OnEmptyOutput(c1)
       ELSE
         LET n == size - z.s.avail_out
             out == [offset |-> BufferOffset(z.s, n),
                     size |-> n,
                     data |-> z.out,
                     cap |-> c.b.buffer_size,
                     req |-> c.b.offset,
                     ok |-> ~(d.kind = "push" /\ d.at = i)]
         IN IF ~out.ok THEN OnPushFailure(c1, out)
            ELSE ChunkLoop(OnPushed(c1, out), i + 1, d, startOk)

\* The call record at entry to gst_bz2dec_chain
EnterChain(b, in) ==
  [b |-> b, in |-> in, r |-> "BZ_OK", rs |-> <<>>, handed |-> <<>>,
   outs |-> <<>>, reqs |-> <<>>, ret |-> "GST_FLOW_OK", exit |-> "",
   fail |-> "none", reinits |-> 0, in_unrefs |-> 0, ev |-> <<>>]

\* After the loop: gst_buffer_unref (in); return GST_FLOW_OK
ReleaseInput_Twice(c) ==
  [c EXCEPT !.in_unrefs = @ + 2, !.ret = "GST_FLOW_OK",
            !.ev = @ \o <<"unref_in", "unref_in">>]

ReleaseInput(c) ==
  [c EXCEPT !.in_unrefs = @ + 1, !.ret = "GST_FLOW_OK", !.ev = @ \o <<"unref_in">>]

gst_bz2dec_chain_NoReadyCheck(b, in, d, startOk) ==
  LET c0 == EnterChain(b, in)
      c == ChunkLoop([c0 EXCEPT !.b.stream.avail_in = Len(in)], 1, d, startOk)
  IN IF c.exit = "return" THEN c ELSE ReleaseInput(c)

\* gst_bz2dec_chain (pad, in) on element b; the result is the call record
\* [b (the element afterwards), ret, r, rs, handed, outs, reqs, in_unrefs, ev, ...]
gst_bz2dec_chain(b, in, d, startOk) ==
  LET c0 == EnterChain(b, in)
  IN IF ~b.ready THEN
       [c0 EXCEPT !.b.errs = Append(@, "Decompressor not ready."),
                  !.ret = "GST_FLOW_ERROR", !.exit = "return",
                  !.ev = @ \o <<"error">>]
     ELSE
       LET c == ChunkLoop([c0 EXCEPT !.b.stream.avail_in = Len(in)], 1, d, startOk)
       IN IF c.exit = "return" THEN c ELSE ReleaseInput(c)

-----------------------------------------------------------------------------
(* gstdccp.c: gst_dccp_socket_write / gst_dccp_send_buffer *)

\* Conversion to size_t, and of a size_t to gint
ToSize(x) == x % SizeWrap
ToGint(x) == IF x >= SizeWrap \div 2 THEN x - SizeWrap ELSE x

\* No gst_dccp_set_ccid call made: the socket's CCID is the one it was created
\* with (set_to = -1)
NoCcidCall ==
  [ccid |-> 0, query_ok |-> FALSE, reported |-> <<>>, ccids |-> <<>>,
   attempted |-> FALSE, set_to |-> -1, ret |-> FALSE]

\* gst_dccp_set_ccid (element, sock_fd, ccid).  The host's answer to
\* DCCP_SOCKOPT_AVAILABLE_CCIDS: query_ok and the CCIDs `reported`, which fill
\* the first Len(reported) slots of ccids[]; the other slots keep what the stack
\* held, `garbage`.  set_ok: setsockopt (DCCP_SOCKOPT_CCID) succeeds.
gst_dccp_set_ccid(ccid, query_ok, reported, garbage, set_ok) ==
  LET ccids == reported \o garbage
      c0 == [NoCcidCall EXCEPT !.ccid = ccid, !.query_ok = query_ok,
                               !.reported = IF query_ok THEN reported ELSE <<>>,
                               !.ccids = ccids]
      ccid_supported == \E i \in 1..CcidSlots : ccid = ccids[i]
  IN IF ~query_ok THEN [c0 EXCEPT !.ret = FALSE]
     ELSE IF ~ccid_supported THEN [c0 EXCEPT !.ret = FALSE]
     ELSE IF ~set_ok THEN [c0 EXCEPT !.attempted = TRUE, !.ret = FALSE]
     ELSE [c0 EXCEPT !.attempted = TRUE, !.set_to = ccid, !.ret = TRUE]

\* No send in progress
DccpIdle ==
  [pc |-> "idle", data |-> <<>>, packet_size |-> 0, bytes_written |-> 0,
   wire |-> <<>>, calls |-> 0, big |-> FALSE, wrote |-> 0, ret |-> "",
   sockopt |-> NoCcidCall]

\* MIN (packet_size, size - bytes_written)
WriteCount(s) == Min(ToSize(s.packet_size), ToSize(Len(s.data) - s.bytes_written))

\* What write (socket, buf, count) may do: return -1 with errno EAGAIN, return
\* -1 with another errno, or take the first k bytes, 1 <= k <= count (0 when
\* count is 0), and return k
WriteOutcomes(count) ==
  {[wrote |-> -1, errno |-> e] : e \in {"EAGAIN", "EIO"}}
    \cup {[wrote |-> k, errno |-> ""] : k \in (IF count = 0 THEN {0} ELSE 1..count)}

\* One write () of the loop with outcome o, and bytes_written += wrote unless
\* the do-while repeats the call
write(s, o) ==
  LET count == WriteCount(s)
      s1 == [s EXCEPT !.calls = @ + 1, !.big = @ \/ count > s.packet_size]
  IN IF o.wrote = -1 /\ o.errno = "EAGAIN" THEN s1
     ELSE IF o.wrote = -1 THEN [s1 EXCEPT !.bytes_written = ToSize(@ + SizeWrap + o.wrote)]
     ELSE [s1 EXCEPT !.wire = @ \o SubSeq(s.data, s.bytes_written + 1,
                                          s.bytes_written + o.wrote),
                     !.bytes_written = ToSize(@ + o.wrote)]

\* while (bytes_written < size)
InWriteLoop(s) == s.bytes_written < ToSize(Len(s.data))

\* gst_dccp_send_buffer after gst_dccp_socket_write has returned bytes_written
\* as a gint
SendBufferResult(s) ==
  LET wrote == ToGint(s.bytes_written)
  IN [s EXCEPT !.pc = "done",
               !.wrote = wrote,
               !.ret = IF ToSize(wrote) # ToSize(Len(s.data))
                         THEN "GST_FLOW_ERROR" ELSE "GST_FLOW_OK"]

-----------------------------------------------------------------------------
(* State machine *)

Element == [ready |-> ready, stream |-> stream, offset |-> offset,
            buffer_size |-> buffer_size, sessions |-> sessions, errs |-> <<>>]

NoCall(op, errs) ==
  [op |-> op, in |-> <<>>, ret |-> "", r |-> "", rs |-> <<>>, handed |-> <<>>,
   outs |-> <<>>, reqs |-> <<>>, in_unrefs |-> 0, reinits |-> 0, fail |-> "none",
   errs |-> errs, exit |-> "", ev |-> <<>>]

\* g_object_new: the zeroed instance after gst_bz2dec_init
gst_bz2dec_init(startOk) ==
  gst_bz2dec_decompress_init(
    [ready |-> FALSE, stream |-> ZeroStream, offset |-> 0,
     buffer_size |-> DEFAULT_BUFFER_SIZE, sessions |-> 0, errs |-> <<>>],
    startOk)

\* What the caller may deliver: a body of data bytes followed by a tail (nothing,
\* the trailer, a corrupted byte, and either of these followed by more data), and
\* a few streams of large blocks
RECURSIVE SeqsUpTo(_, _)
SeqsUpTo(S, n) ==
  IF n = 0 THEN {<<>>}
  ELSE LET P == SeqsUpTo(S, n - 1)
       IN P \cup {Append(p, x) : p \in {q \in P : Len(q) = n - 1}, x \in S}
Tails == {<<>>, <<TokEnd>>, <<TokBad>>, <<TokEnd, 1>>, <<TokBad, 1>>}
Streams == {body \o tail : body \in SeqsUpTo(0..MaxRun, MaxBodyLen), tail \in Tails}
BulkStreams ==
  {<<40, TokEnd>>, <<16, 24, TokEnd>>, <<8, 0, 16, 16, TokEnd>>, <<24, 0, 16, 0, TokEnd>>,
   <<40, 40, TokEnd>>, <<40, 24, 16, TokEnd>>, <<16, TokBad, 24>>}
Downstream ==
  {NoFail} \cup {[kind |-> k, at |-> i] : k \in {"alloc", "push"}, i \in 1..MaxFailIter}

\* The state after g_object_new, with the caller holding stream s
Constructed(startOk, s) ==
  LET b == gst_bz2dec_init(startOk) IN
  /\ ready = b.ready
  /\ stream = b.stream
  /\ offset = b.offset
  /\ buffer_size = b.buffer_size
  /\ sessions = b.sessions
  /\ finalized = FALSE
  /\ upstream = s
  /\ fed = <<>>
  /\ pushed = <<>>
  /\ over = FALSE
  /\ call = NoCall("init", b.errs)
  /\ dccp = DccpIdle

Init == \E startOk \in BOOLEAN, s \in Streams : Constructed(startOk, s)

SessionFed == IF over THEN <<>> ELSE fed
SessionPushed == IF over THEN <<>> ELSE pushed

\* The pad's chain function called with Input Chunk `in`: the element and the
\* record of the call
Chain(in, d, startOk) ==
  /\ ~finalized
  /\ \E c \in {gst_bz2dec_chain(Element, in, d, startOk)} :
     /\ ready' = c.b.ready
     /\ stream' = c.b.stream
     /\ offset' = c.b.offset
     /\ sessions' = c.b.sessions
     /\ call' = [op |-> "chain", in |-> in, ret |-> c.ret, r |-> c.r, rs |-> c.rs,
                 handed |-> c.handed, outs |-> c.outs, reqs |-> c.reqs,
                 in_unrefs |-> c.in_unrefs, reinits |-> c.reinits, fail |-> c.fail,
                 errs |-> c.b.errs, exit |-> c.exit, ev |-> c.ev]
  /\ UNCHANGED <<buffer_size, finalized, dccp>>

\* The caller delivers the next k bytes of its stream as one Input Chunk
Feed ==
  \E k \in 0..Len(upstream), d \in Downstream, startOk \in BOOLEAN :
    /\ Chain(Take(upstream, k), d, startOk)
    /\ upstream' = Drop(upstream, k)
    /\ UNCHANGED <<fed, pushed, over>>

\* The same with a downstream that accepts everything, and with the session's
\* Input Chunks and Output Chunks logged
Deliver ==
  \E k \in 0..Len(upstream), startOk \in BOOLEAN :
    /\ Chain(Take(upstream, k), NoFail, startOk)
    /\ upstream' = Drop(upstream, k)
    /\ IF ready
         THEN /\ fed' = SessionFed \o Take(upstream, k)
              /\ pushed' = SessionPushed \o call'.handed
              /\ over' = (call'.reinits > 0)
         ELSE UNCHANGED <<fed, pushed, over>>

\* g_object_set (b, "buffer_size", v), before streaming starts
gst_bz2dec_set_property(v) ==
  /\ ~finalized
  /\ call.op # "chain"
  /\ buffer_size' = v
  /\ call' = NoCall("set_property", <<>>)
  /\ UNCHANGED <<ready, stream, offset, sessions, finalized, upstream, fed, pushed, over,
                 dccp>>

SetProperty == \E v \in 1..MaxBufferSize : gst_bz2dec_set_property(v)

SetPropertyBulk == \E v \in {16} : gst_bz2dec_set_property(v)

\* The last reference is dropped; the caller's remaining data goes with it
gst_bz2dec_finalize ==
  /\ ~finalized
  /\ \E b \in {gst_bz2dec_decompress_end(Element)} :
     /\ ready' = b.ready
     /\ stream' = b.stream
     /\ offset' = b.offset
     /\ sessions' = b.sessions
  /\ finalized' = TRUE
  /\ upstream' = <<>>
  /\ fed' = <<>>
  /\ pushed' = <<>>
  /\ over' = TRUE
  /\ call' = NoCall("finalize", <<>>)
  /\ UNCHANGED <<buffer_size, dccp>>

Finalize == gst_bz2dec_finalize

Next == Feed \/ SetProperty \/ Finalize

Spec == Init /\ [][Next]_vars

\* The caller delivers its stream in order to a downstream that accepts everything
NextStream == Deliver \/ SetProperty \/ Finalize

SpecStream == Init /\ [][NextStream]_vars

\* The same with streams of large blocks and buffer_size 16
InitBulk == \E startOk \in BOOLEAN, s \in BulkStreams : Constructed(startOk, s)

\* buffer_size is a guint, below the range of total_out_lo32
DeliverBulk == buffer_size < TotalOutWrap /\ Deliver

NextBulk == DeliverBulk \/ SetPropertyBulk \/ Finalize

SpecBulk == InitBulk /\ [][NextBulk]_vars

\* The DCCP elements: a buffer of bytes 1..n is sent over the socket
bz2vars == <<ready, stream, offset, buffer_size, sessions, finalized, upstream, fed,
             pushed, over, call>>

\* gst_dccp_send_buffer (this, buffer, fd, packet_size) up to its call of
\* gst_dccp_socket_write
gst_dccp_send_buffer(n, packet_size) ==
  /\ dccp.pc = "idle"
  /\ dccp' = IF packet_size < 0
              THEN [dccp EXCEPT !.pc = "done", !.data = [i \in 1..n |-> i],
                                !.packet_size = packet_size, !.ret = "GST_FLOW_ERROR"]
              ELSE [dccp EXCEPT !.pc = "write", !.data = [i \in 1..n |-> i],
                                !.packet_size = packet_size]
  /\ UNCHANGED bz2vars

SendBuffer == \E n \in 0..MaxData, p \in (-1)..MaxPacket : gst_dccp_send_buffer(n, p)

\* One write () in the loop of gst_dccp_socket_write
gst_dccp_socket_write ==
  /\ dccp.pc = "write"
  /\ InWriteLoop(dccp)
  /\ dccp.calls < MaxWrites
  /\ \E o \in WriteOutcomes(WriteCount(dccp)) : dccp' = write(dccp, o)
  /\ UNCHANGED bz2vars

\* The loop is left, gst_dccp_socket_write and gst_dccp_send_buffer return
SendBufferReturn ==
  /\ dccp.pc = "write"
  /\ ~InWriteLoop(dccp)
  /\ dccp' = SendBufferResult(dccp)
  /\ UNCHANGED bz2vars

\* The element configures the congestion control of its socket
SetCcid ==
  /\ dccp.pc = "idle"
  /\ \E ccid \in 0..MaxCcid, query_ok \in BOOLEAN, set_ok \in BOOLEAN,
        reported \in SeqsUpTo(0..MaxCcid, CcidSlots) :
       \E garbage \in {g \in SeqsUpTo(0..MaxCcid, CcidSlots) :
                          Len(g) = CcidSlots - Len(reported)} :
         dccp' = [dccp EXCEPT !.pc = "ccid",
                              !.sockopt = gst_dccp_set_ccid(ccid, query_ok, reported,
                                                            garbage, set_ok)]
  /\ UNCHANGED bz2vars

InitDccp == Constructed(TRUE, <<>>)

NextDccp == SendBuffer \/ gst_dccp_socket_write \/ SendBufferReturn \/ SetCcid

SpecDccp == InitDccp /\ [][NextDccp]_vars

-----------------------------------------------------------------------------
(* Properties *)

RECURSIVE Bytes(_)
\* The bytes of a sequence of Output Chunks, concatenated
Bytes(chunks) ==
  IF chunks = <<>> THEN <<>> ELSE Head(chunks).data \o Bytes(Tail(chunks))

RECURSIVE Decompressed(_)
\* The decompressed form of the compressed bytes s, up to its trailer
Decompressed(s) ==
  IF s = <<>> \/ IsEnd(Head(s)) \/ IsBad(Head(s)) THEN <<>>
  ELSE Copies(Head(s), Head(s)) \o Decompressed(Tail(s))

\* A valid compressed stream: data bytes, then the trailer, then nothing
IsValidStream(s) ==
  /\ s # <<>>
  /\ IsEnd(s[Len(s)])
  /\ \A i \in 1..(Len(s) - 1) : ~IsEnd(s[i]) /\ ~IsBad(s[i])

Sizes(chunks) == [i \in 1..Len(chunks) |-> chunks[i].size]
Offsets(chunks) == [i \in 1..Len(chunks) |-> chunks[i].offset]

DecodeErrorInCall ==
  call.op = "chain" /\ call.rs # <<>> /\ IsDecodeError(call.rs[Len(call.rs)])

FreshSession(strm) == strm = StartedStream(ZeroStream)

\* C1: within one decoder session the Output Chunks handed downstream carry
\* contiguous offsets starting at 0, offset(chunk[i+1]) = offset(chunk[i]) +
\* len(chunk[i]), also when the cumulative output passes the range of
\* total_out_lo32.
C1_ContiguousOffsets ==
  /\ pushed # <<>> => pushed[1].offset = 0
  /\ \A i \in 1..(Len(pushed) - 1) :
       pushed[i + 1].offset = pushed[i].offset + pushed[i].size

\* C2 as claimed: every Output Chunk of a session but the last one handed so far
\* has length exactly buffer_size, also for streams split over Input Chunks.
C2_OnlyFinalChunkOfStreamShort ==
  \A i \in 1..(Len(pushed) - 1) : pushed[i].size = pushed[i].cap

\* C2 as amended: every Output Chunk handed downstream has a length of at least 1
\* and at most buffer_size, and every chunk other than the last chunk handed in
\* its chain call has length exactly buffer_size.
C2_ChunkLengths ==
  call.op = "chain" =>
    \A i \in 1..Len(call.handed) :
      /\ call.handed[i].size >= 1
      /\ call.handed[i].size <= buffer_size
      /\ call.handed[i].size = Len(call.handed[i].data)
      /\ i < Len(call.handed) => call.handed[i].size = buffer_size

C2_Witness ==
  /\ call.op = "chain"
  /\ Len(call.handed) >= 2
  /\ call.handed[1].size = buffer_size
  /\ call.handed[Len(call.handed)].size < buffer_size

\* The chain call that is given the whole of s as one Input Chunk by a freshly
\* constructed element with the given buffer_size
SingleChunk(s, size) ==
  gst_bz2dec_chain([gst_bz2dec_init(TRUE) EXCEPT !.buffer_size = size], s, NoFail, TRUE)

\* C3: for a valid compressed stream split into Input Chunks in any way, the
\* bytes of the Output Chunks handed downstream, concatenated, are those handed
\* downstream when the stream is one Input Chunk.
C3_ChunkingInvariance ==
  (~over /\ ~finalized /\ IsValidStream(fed)) =>
    /\ Bytes(pushed) = Bytes(SingleChunk(fed, buffer_size).handed)
    /\ Bytes(pushed) = Decompressed(fed)

C3_Witness ==
  /\ ~over /\ ~finalized /\ IsValidStream(fed)
  /\ call.op = "chain" /\ call.in # fed /\ call.in # <<>>
  /\ Len(pushed) >= 2
  /\ \E i \in 1..(Len(pushed) - 1) : pushed[i].size < pushed[i].cap
  /\ Bytes(pushed) = Bytes(SingleChunk(fed, buffer_size).handed)

\* C4: buffer_size 16, a valid stream of 40 decompressed bytes given as one Input
\* Chunk to a freshly initialized decoder: exactly 3 Output Chunks of lengths
\* 16, 16, 8 and offsets 0, 16, 32 are handed downstream, and the call returns
\* success with the primitive having reported stream-end.
C4_Scenario ==
  [][(/\ ready /\ FreshSession(stream) /\ offset = 0 /\ buffer_size = 16
      /\ call'.op = "chain"
      /\ IsValidStream(call'.in)
      /\ Len(Decompressed(call'.in)) = 40)
     => (/\ Sizes(call'.handed) = <<16, 16, 8>>
         /\ Offsets(call'.handed) = <<0, 16, 32>>
         /\ Bytes(call'.handed) = Decompressed(call'.in)
         /\ call'.ret = "GST_FLOW_OK"
         /\ call'.r = "BZ_STREAM_END"
         /\ offset' = 40)]_vars

C4_Witness ==
  /\ call.op = "chain" /\ fed = call.in /\ ~over
  /\ buffer_size = 16
  /\ IsValidStream(call.in) /\ Len(Decompressed(call.in)) = 40
  /\ Sizes(call.handed) = <<16, 16, 8>>
  /\ Offsets(call.handed) = <<0, 16, 32>>
  /\ call.ret = "GST_FLOW_OK"

StartFailedInCall == \E i \in 1..Len(call.errs) : call.errs[i] = "Failed to start decompression."

NotReadyInCall == \E i \in 1..Len(call.errs) : call.errs[i] = "Decompressor not ready."

\* C5 as claimed: after a chain call in which a decompression step reported an
\* error the decoder has ready = TRUE and output_offset = 0 when the call returns.
C5_ReadyAfterDecodeError ==
  DecodeErrorInCall => (ready /\ offset = 0)

\* C5 as amended: after a chain call in which a decompression step reported an
\* error, output_offset = 0 and the old session is gone when the call returns;
\* ready = TRUE with a fresh session if the primitive started one, and
\* ready = FALSE with no session if the start failed.
C5_ReinitAfterDecodeError ==
  DecodeErrorInCall =>
    /\ offset = 0
    /\ call.reinits = 1
    /\ call.ret = "GST_FLOW_ERROR"
    /\ ready <=> ~StartFailedInCall
    /\ ready => FreshSession(stream)
    /\ ~ready => stream = ZeroStream

C5_Witness ==
  /\ DecodeErrorInCall
  /\ call.handed # <<>>
  /\ ready /\ offset = 0 /\ FreshSession(stream)

\* C6: every chain call on a ready decoder that returns a failure has
\* reinitialized the Decoder State before returning (fresh session,
\* output_offset = 0, ready = TRUE) and returns a non-OK result; no failure path
\* leaves the old session in place.  Stated for the calls in which the primitive
\* did not refuse to start a session.
C6_EveryFailureReinitializes ==
  (call.op = "chain" /\ call.exit = "return" /\ ~NotReadyInCall /\ ~StartFailedInCall) =>
    /\ call.ret # "GST_FLOW_OK"
    /\ call.reinits = 1
    /\ ready /\ offset = 0 /\ FreshSession(stream)

\* The session proper: what BZ2_bzDecompressInit creates and the steps advance
SessionOf(strm) ==
  [state |-> strm.state, pending |-> strm.pending,
   total_out_lo32 |-> strm.total_out_lo32, total_out_hi32 |-> strm.total_out_hi32]

\* C7: a chain call made while ready = FALSE fails with the not-ready error and
\* has no other effect: nothing is allocated, stepped, handed downstream or
\* released, no session is started or ended, and ready and output_offset are
\* unchanged; a not-ready decoder stays not-ready whatever is called later.
C7_NotReadyChainIsInert ==
  [][~ready =>
       /\ ~ready'
       /\ call'.op = "chain" =>
            /\ call'.ret = "GST_FLOW_ERROR"
            /\ call'.errs = <<"Decompressor not ready.">>
            /\ call'.reqs = <<>> /\ call'.rs = <<>> /\ call'.handed = <<>>
            /\ call'.outs = <<>>
            /\ call'.in_unrefs = 0 /\ call'.reinits = 0
            /\ offset' = offset /\ stream' = stream /\ sessions' = sessions]_vars

C7_Witness ==
  /\ ~ready /\ ~finalized
  /\ call.op = "chain" /\ call.in # <<>>
  /\ call.errs = <<"Decompressor not ready.">>
  /\ call.ret = "GST_FLOW_ERROR"

\* C8 as claimed: a chain call with a zero-length Input Chunk, in any reachable
\* state, hands no Output Chunk downstream and leaves ready, output_offset and
\* the session unchanged.
C8_ZeroLengthIsInert ==
  [][(call'.op = "chain" /\ call'.in = <<>>) =>
       /\ call'.handed = <<>>
       /\ ready' = ready /\ offset' = offset
       /\ SessionOf(stream') = SessionOf(stream)]_vars

\* C8 as amended: a chain call with a zero-length Input Chunk hands no Output
\* Chunk downstream and leaves ready, output_offset and the session unchanged
\* when the decoder is not ready, or when it is ready, the allocator provides
\* the buffer, the session has not reported stream-end and the primitive holds
\* no undelivered output.  Otherwise: a refused first buffer, or a step on an
\* ended session, fails the call and reinitializes the decoder without any
\* handoff, and undelivered output is handed downstream.
C8_ZeroLengthChain ==
  [][(call'.op = "chain" /\ call'.in = <<>>) =>
       /\ (~ready \/ (/\ call'.fail # "alloc"
                      /\ stream.state = "RUN"
                      /\ stream.pending = <<>>)) =>
            /\ call'.handed = <<>>
            /\ ready' = ready /\ offset' = offset
            /\ SessionOf(stream') = SessionOf(stream)
            /\ sessions' = sessions
            /\ ready => call'.ret = "GST_FLOW_OK"
       /\ (ready /\ call'.fail = "alloc" /\ stream.pending = <<>>) =>
            /\ call'.handed = <<>> /\ call'.rs = <<>>
            /\ call'.reinits = 1 /\ offset' = 0
            /\ call'.ret = FlowFailure
       /\ (ready /\ call'.fail # "alloc" /\ stream.state = "IDLE") =>
            /\ call'.handed = <<>>
            /\ call'.rs = <<"BZ_SEQUENCE_ERROR">>
            /\ call'.reinits = 1 /\ offset' = 0
            /\ call'.ret = "GST_FLOW_ERROR"
       /\ (ready /\ call'.fail # "alloc" /\ stream.state = "RUN"
              /\ stream.pending # <<>>) =>
            /\ call'.handed # <<>>
            /\ Take(Bytes(call'.handed) \o stream'.pending, Len(stream.pending))
                 = stream.pending]_vars

C8_Witness ==
  /\ call.op = "chain" /\ call.in = <<>>
  /\ call.ret = "GST_FLOW_OK" /\ call.handed = <<>>
  /\ ready /\ offset > 0 /\ stream.state = "RUN" /\ stream.pending = <<>>

\* C9: the session handle is acquired and released in strict alternation: at
\* every reachable state the number of live sessions is 1 if ready and 0
\* otherwise, the stream holds a session exactly when ready, and after finalize
\* no session is live.
C9_SessionAlternation ==
  /\ sessions = (IF ready THEN 1 ELSE 0)
  /\ ready <=> stream.state # "NULL"
  /\ finalized => (sessions = 0 /\ ~ready)

C9_Witness ==
  /\ finalized /\ sessions = 0 /\ offset > 0

\* C10: between chain calls, ready is true if and only if the session was
\* started and has neither reported an error nor reported stream-end since the
\* last (re)initialization, so no chain call invokes the step on a session that
\* already ended.
C10_ReadyIffSessionUsable ==
  /\ ready <=> stream.state = "RUN"
  /\ call.op = "chain" =>
       \A i \in 1..Len(call.rs) : call.rs[i] # "BZ_SEQUENCE_ERROR"

\* How many times e occurs in the sequence q
Count(q, e) == Cardinality({i \in 1..Len(q) : q[i] = e})

\* The last k events of the call
LastEvents(k) ==
  IF Len(call.ev) < k THEN call.ev
  ELSE SubSeq(call.ev, Len(call.ev) - k + 1, Len(call.ev))

\* C11: in a chain call where a decompression step reports an error, the Output
\* Chunk bound to that step is not handed downstream, nothing is allocated,
\* stepped or handed after it, exactly one decode-failed error is reported, and
\* the chunks handed off are those of the earlier, successful steps.
C11_DecodeErrorPath ==
  DecodeErrorInCall =>
    /\ Len(call.reqs) = Len(call.rs)
    /\ Len(call.outs) = Len(call.rs)
    /\ Len(call.handed) = Len(call.rs) - 1
    /\ \A i \in 1..(Len(call.rs) - 1) : call.rs[i] = "BZ_OK"
    /\ \A i \in 1..Len(call.handed) :
         call.handed[i].ok /\ call.outs[i] = [pushed |-> TRUE, unrefs |-> 0]
    /\ call.outs[Len(call.outs)] = [pushed |-> FALSE, unrefs |-> 1]
    /\ Count(call.errs, "Failed to decompress data") = 1
    /\ Count(call.ev, "error") = 1
    /\ LastEvents(4) = <<"step", "error", "init", "unref_out">>
    /\ Count(call.ev, "push") = Len(call.handed)
    /\ call.in_unrefs = 0

C11_Witness ==
  /\ DecodeErrorInCall
  /\ call.rs[Len(call.rs)] = "BZ_DATA_ERROR"
  /\ Len(call.handed) >= 1
  /\ Len(call.rs) = Len(call.handed) + 1

\* C12: when gst_pad_alloc_buffer fails in a chain call, the step is not invoked
\* in that iteration, nothing is handed downstream for it, the Decoder State is
\* reinitialized (the session ended, output_offset 0, a session started again if
\* the primitive starts one) and the allocator's result is returned.
C12_AllocFailure ==
  call.fail = "alloc" =>
    /\ call.ret = FlowFailure
    /\ Len(call.rs) = Len(call.reqs) - 1
    /\ Len(call.handed) = Len(call.rs)
    /\ Len(call.outs) = Len(call.rs)
    /\ LastEvents(2) = <<"alloc_fail", "init">>
    /\ Count(call.ev, "step") = Len(call.rs)
    /\ call.reinits = 1
    /\ offset = 0
    /\ ready <=> ~StartFailedInCall
    /\ ready => FreshSession(stream)
    /\ ~ready => stream = ZeroStream
    /\ sessions = (IF ready THEN 1 ELSE 0)

C12_Witness ==
  /\ call.fail = "alloc"
  /\ Len(call.handed) >= 1
  /\ call.reqs[Len(call.reqs)] > 0
  /\ ready /\ offset = 0

\* C13: when gst_pad_push fails, the chain call returns the collaborator's
\* result at once: nothing is allocated, stepped or handed after it, and
\* output_offset is not advanced by the rejected chunk's length.
C13_PushFailure ==
  call.fail = "push" =>
    /\ call.ret = FlowFailure
    /\ Len(call.reqs) = Len(call.rs)
    /\ Len(call.handed) = Len(call.rs)
    /\ ~call.handed[Len(call.handed)].ok
    /\ \A i \in 1..(Len(call.handed) - 1) : call.handed[i].ok
    /\ LastEvents(2) = <<"push_fail", "unref_out">>
    /\ Count(call.ev, "push_fail") = 1
    /\ offset = call.reqs[Len(call.reqs)]
    /\ call.in_unrefs = 0

C13_Witness ==
  /\ call.fail = "push"
  /\ Len(call.handed) >= 2
  /\ offset > 0
  /\ call.handed[Len(call.handed)].size > 0

\* C14: every chain call ends after finitely many iterations of the loop, at
\* most one more than the number of buffer_size chunks its output fills, and it
\* leaves the loop on stream-end, on a step that produced nothing, or on a
\* failure.
C14_ChainTerminates ==
  (call.op = "chain" /\ ~NotReadyInCall) =>
    /\ Len(call.reqs) <=
         ((Len(Bytes(call.handed)) + buffer_size - 1) \div buffer_size) + 1
    /\ \/ /\ call.exit = "" /\ call.r = "BZ_STREAM_END"
          /\ call.ret = "GST_FLOW_OK"
       \/ /\ call.exit = "break" /\ call.r \in {"BZ_OK", "BZ_STREAM_END"}
          /\ call.outs[Len(call.outs)] = [pushed |-> FALSE, unrefs |-> 1]
          /\ call.ret = "GST_FLOW_OK"
       \/ /\ call.exit = "return" /\ call.ret # "GST_FLOW_OK"
          /\ call.fail # "none" \/ DecodeErrorInCall

C14_Witness ==
  /\ call.op = "chain" /\ call.exit = "break"
  /\ Len(call.reqs) >= 3
  /\ buffer_size < Len(Bytes(call.handed))

\* C15: when a chain call returns success, the Input Chunk has been consumed
\* fully: the primitive has no unread byte of it left and holds no decompressed
\* output that it has not delivered.
C15_InputFullyConsumed ==
  (call.op = "chain" /\ call.ret = "GST_FLOW_OK") =>
    /\ stream.avail_in = 0
    /\ stream.pending = <<>>

RECURSIVE SumAccepted(_)
\* The total length of the Output Chunks the downstream accepted
SumAccepted(chunks) ==
  IF chunks = <<>> THEN 0
  ELSE (IF Head(chunks).ok THEN Head(chunks).size ELSE 0) + SumAccepted(Tail(chunks))

\* C16: output_offset is 0 after construction; a chain call without
\* reinitialization adds to it the lengths of the Output Chunks handed downstream
\* successfully and nothing else, so it never decreases; a call that
\* reinitializes leaves it at 0; no other handler changes it.
C16_OffsetIsSumOfHanded ==
  [][/\ call'.op = "chain" =>
          IF call'.reinits > 0
            THEN offset' = 0
            ELSE offset' = offset + SumAccepted(call'.handed) /\ offset' >= offset
     /\ call'.op # "chain" => offset' = offset]_vars

C16_Witness ==
  /\ call.fail = "push"
  /\ Len(call.handed) >= 2
  /\ offset = call.handed[1].size
  /\ ready

\* C17: a chain call releases its Input Chunk exactly once when it returns
\* success and never more than once on any path, and the release is the last
\* thing it does, after the last Output Chunk has been handed off.
C17_InputReleasedOnce ==
  call.op = "chain" =>
    /\ call.in_unrefs <= 1
    /\ call.in_unrefs = Count(call.ev, "unref_in")
    /\ call.ret = "GST_FLOW_OK" =>
         /\ call.in_unrefs = 1
         /\ call.ev[Len(call.ev)] = "unref_in"

C17_Witness ==
  /\ call.op = "chain" /\ call.ret = "GST_FLOW_OK"
  /\ call.in_unrefs = 1
  /\ Len(call.handed) >= 2
  /\ LastEvents(2) = <<"push", "unref_in">>

\* C18: between chain calls, while ready, output_offset equals the primitive's
\* cumulative output count of the session, and every Output Chunk handed off is
\* stamped with the output_offset that was passed to the allocator for it.
C18_OffsetMatchesTotalOut ==
  /\ ready => offset = stream.total_out_hi32 * TotalOutWrap + stream.total_out_lo32
  /\ call.op = "chain" =>
       \A i \in 1..Len(call.handed) : call.handed[i].offset = call.handed[i].req

\* C19: every Output Chunk allocated in chain is disposed of exactly once: handed
\* to the downstream (which takes ownership) or released by the element, never
\* both and never neither.
C19_OutputDisposedOnce ==
  call.op = "chain" =>
    /\ Len(call.outs) = Count(call.ev, "alloc")
    /\ \A i \in 1..Len(call.outs) :
         (IF call.outs[i].pushed THEN 1 ELSE 0) + call.outs[i].unrefs = 1

\* C20: gst_dccp_socket_write returns the number of bytes actually written to
\* the socket (when it does not return a negative value for an error), and gst_dccp_send_buffer returns GST_FLOW_OK only if every byte of
\* the buffer was written to the socket exactly once and in order, in writes of
\* at most packet_size bytes; otherwise it returns GST_FLOW_ERROR.
C20_SendBufferWritesAll ==
  (dccp.pc = "done" /\ dccp.packet_size >= 0) =>
    /\ dccp.wrote >= 0 => dccp.wrote = Len(dccp.wire)
    /\ dccp.ret \in {"GST_FLOW_OK", "GST_FLOW_ERROR"}
    /\ dccp.ret = "GST_FLOW_OK" => (dccp.wire = dccp.data /\ ~dccp.big)

\* The CCIDs the host reported as available in the call
ReportedCcids == {dccp.sockopt.reported[i] : i \in 1..Len(dccp.sockopt.reported)}

\* C21: gst_dccp_set_ccid sets the socket's CCID and returns TRUE only if the
\* requested CCID is among the CCIDs the host reported as available; if the
\* query fails, the CCID is not reported or the set fails it returns FALSE, and
\* when the CCID is not reported it does not attempt to set it.
C21_SetCcidOnlyIfReported ==
  dccp.pc = "ccid" =>
    /\ dccp.sockopt.ret =>
         /\ dccp.sockopt.ccid \in ReportedCcids
         /\ dccp.sockopt.set_to = dccp.sockopt.ccid
    /\ dccp.sockopt.ccid \notin ReportedCcids =>
         /\ ~dccp.sockopt.attempted
         /\ dccp.sockopt.set_to = -1
         /\ ~dccp.sockopt.ret
    /\ ~dccp.sockopt.query_ok => ~dccp.sockopt.ret
    /\ (dccp.sockopt.attempted /\ dccp.sockopt.set_to = -1) => ~dccp.sockopt.ret

====
